---- MODULE Spec2Model ----
\* A model of the vega-population package manager: the source fetch layer, the
\* index cache, and the dependency-aware installer (population.Source.Install).
\*
\* Go strings are modelled as sequences of one-character strings, so that
\* fmt.Errorf, %q, filepath.Join and the substring test of
\* isAlreadyInstalledError are computed on the text, character by character.
EXTENDS Integers, Sequences, FiniteSets, TLC

VARIABLES
    noCache,      \* Client.noCache: caching disabled
    cache,        \* the cache directory: one entry per cache file name
    now,          \* wall clock, in hours
    fs,           \* the install directory: <plural>/<name>/vega.yaml by (kind, name)
    last          \* the call the CLI is reporting on, or Idle

vars == <<noCache, cache, now, fs, last>>

----------------------------------------------------------------------------
\* Bounds of the model

\* longest capability list of a profile index entry
MaxSkills == 2

----------------------------------------------------------------------------
\* Text

\* the double-quote character, as one symbol
DQ == "dq"

S_already == <<"a","l","r","e","a","d","y"," ","i","n","s","t","a","l","l","e","d">>
S_isAlready == <<" ","i","s"," ","a","l","r","e","a","d","y"," ","i","n","s","t","a","l","l","e","d"," ","(","u","s","e"," ","-","-","f","o","r","c","e"," ","t","o"," ","o","v","e","r","w","r","i","t","e",")">>
S_fetching == <<"f","e","t","c","h","i","n","g"," ">>
S_colon == <<":"," ">>
S_space == <<" ">>
S_slash == <<"/">>
S_readingLocal == <<"r","e","a","d","i","n","g"," ","l","o","c","a","l"," ","f","i","l","e"," ">>
S_open == <<"o","p","e","n"," ">>
S_noSuchFile == <<":"," ","n","o"," ","s","u","c","h"," ","f","i","l","e"," ","o","r"," ","d","i","r","e","c","t","o","r","y">>
S_status404 == <<":"," ","s","t","a","t","u","s"," ","4","0","4">>
S_installingPersona == <<"i","n","s","t","a","l","l","i","n","g"," ","p","e","r","s","o","n","a"," ">>
S_installingSkill == <<"i","n","s","t","a","l","l","i","n","g"," ","s","k","i","l","l"," ">>
S_profile == <<"p","r","o","f","i","l","e"," ">>
S_notFound == <<" ","n","o","t"," ","f","o","u","n","d">>
S_parsing == <<"p","a","r","s","i","n","g"," ">>
S_indexYaml == <<" ","i","n","d","e","x",":"," ","y","a","m","l",":"," ","u","n","m","a","r","s","h","a","l"," ","e","r","r","o","r","s">>
S_vega == <<"v","e","g","a",".","y","a","m","l">>
S_indexFile == <<"/","i","n","d","e","x",".","y","a","m","l">>
S_http == <<"h","t","t","p",":","/","/">>
S_https == <<"h","t","t","p","s",":","/","/">>
S_index == <<" ","i","n","d","e","x",":"," ">>
S_invalidating == <<"i","n","v","a","l","i","d","a","t","i","n","g"," ","c","a","c","h","e",":"," ">>
S_removing == <<"r","e","m","o","v","i","n","g"," ","c","a","c","h","e"," ","d","i","r","e","c","t","o","r","y">>
S_writing == <<"w","r","i","t","i","n","g"," ","c","a","c","h","e"," ","f","i","l","e">>
S_at == <<"@">>
S_plus == <<"+">>

\* strings.HasPrefix
HasPrefix(s, p) == Len(s) >= Len(p) /\ SubSeq(s, 1, Len(p)) = p

\* strings.HasSuffix
HasSuffix(s, p) == Len(s) >= Len(p) /\ SubSeq(s, Len(s) - Len(p) + 1, Len(s)) = p

\* strings.TrimPrefix
TrimPrefix(s, p) == IF HasPrefix(s, p) THEN SubSeq(s, Len(p) + 1, Len(s)) ELSE s

\* strings.TrimSuffix
TrimSuffix(s, p) == IF HasSuffix(s, p) THEN SubSeq(s, 1, Len(s) - Len(p)) ELSE s

\* fmt's %q of a string of printable characters without quotes or backslashes
Quote(s) == <<DQ>> \o s \o <<DQ>>

\* filepath.Join of two clean, non-empty elements
Join(a, b) == a \o S_slash \o b

----------------------------------------------------------------------------
\* Item kinds and names

KindSkill == "skill"
KindPersona == "persona"
KindProfile == "profile"
Kinds == {KindSkill, KindPersona, KindProfile}

\* ItemKind.String
String(kind) ==
    CASE kind = KindSkill -> <<"s","k","i","l","l">>
      [] kind = KindPersona -> <<"p","e","r","s","o","n","a">>
      [] kind = KindProfile -> <<"p","r","o","f","i","l","e">>

\* ItemKind.Plural
Plural(kind) ==
    CASE kind = KindSkill -> <<"s","k","i","l","l","s">>
      [] kind = KindPersona -> <<"p","e","r","s","o","n","a","s">>
      [] kind = KindProfile -> <<"p","r","o","f","i","l","e","s">>
      [] OTHER -> String(kind) \o <<"s">>

\* ParseItemName
ParseItemName(input) ==
    IF HasPrefix(input, S_at) THEN <<KindPersona, TrimPrefix(input, S_at)>>
    ELSE IF HasPrefix(input, S_plus) THEN <<KindProfile, TrimPrefix(input, S_plus)>>
    ELSE <<KindSkill, input>>

\* the names the repository publishes
SkillNames == {<<"s","1">>, <<"s","2">>}
PersonaNames == {<<"p","1">>}
ProfileNames == {<<"f","1">>}
NoName == <<>>

\* what a user types: bare for a skill, @name for a persona, +name for a profile
Inputs ==
    SkillNames \cup {S_at \o n : n \in PersonaNames} \cup {S_plus \o n : n \in ProfileNames}

Slots == {ParseItemName(i) : i \in Inputs}

----------------------------------------------------------------------------
\* Errors: values built by fmt.Errorf, with the wrapped cause (%w) kept

Nil == [t |-> "nil"]

RECURSIVE Error(_)
\* error.Error(): the text of an error value
Error(err) ==
    CASE err.t = "alreadyInstalled" ->
            String(err.kind) \o S_space \o Quote(err.name) \o S_isAlready
      [] err.t = "fetchingItem" ->
            S_fetching \o String(err.kind) \o S_space \o Quote(err.name)
                \o S_colon \o Error(err.cause)
      [] err.t = "readingLocal" ->
            S_readingLocal \o err.path \o S_colon \o S_open \o err.path \o S_noSuchFile
      [] err.t = "status" ->
            S_fetching \o err.path \o S_status404
      [] err.t = "parsingIndex" ->
            S_parsing \o Plural(err.kind) \o S_indexYaml
      [] err.t = "profileNotFound" ->
            S_profile \o Quote(err.name) \o S_notFound
      [] err.t = "notFound" ->
            String(err.kind) \o S_space \o Quote(err.name) \o S_notFound
      [] err.t = "fetchingIndex" ->
            S_fetching \o Plural(err.kind) \o S_index \o Error(err.cause)
      [] err.t = "invalidatingCache" ->
            S_invalidating \o Error(err.cause)
      [] err.t = "removingCache" -> S_removing
      [] err.t = "writingCache" -> S_writing
      [] err.t = "installingPersona" ->
            S_installingPersona \o Quote(err.name) \o S_colon \o Error(err.cause)
      [] err.t = "installingSkill" ->
            S_installingSkill \o Quote(err.name) \o S_colon \o Error(err.cause)

\* containsStringHelper: substr occurs in s at some offset
containsStringHelper(s, substr) ==
    \E i \in 0..(Len(s) - Len(substr)) : SubSeq(s, i + 1, i + Len(substr)) = substr

\* containsString
containsString(s, substr) ==
    Len(s) >= Len(substr) /\ (s = substr \/ (Len(s) > 0 /\ containsStringHelper(s, substr)))

\* isAlreadyInstalledError: the text of the error contains "already installed"
isAlreadyInstalledError(err) ==
    IF err = Nil THEN FALSE ELSE containsString(Error(err), S_already)

----------------------------------------------------------------------------
\* The repository and the source

\* file contents: a manifest is well-formed YAML or not
GoodYaml == "yaml"
BadYaml == "junk"
Absent == "absent"
Bytes == {GoodYaml, BadYaml}

\* the path of a manifest below the source, as GetManifestRaw formats it
manifestPath(kind, name) == Plural(kind) \o S_slash \o name \o S_slash \o S_vega

\* the path of an index below the source, as getIndex formats it
indexPath(kind) == Plural(kind) \o S_indexFile

\* NewSource: the base location normalised to end with "/"; a base without a
\* remote scheme is a local directory. files is what lies behind the location
\* while the call runs: the repository's manifests and indexes.
NewSource(baseURL, files) ==
    LET url == IF HasSuffix(baseURL, S_slash) THEN baseURL ELSE baseURL \o S_slash
    IN  [baseURL |-> url,
         isLocal |-> ~HasPrefix(url, S_http) /\ ~HasPrefix(url, S_https),
         files |-> files]

\* the repository's layout: the path of every file it may hold
ManifestPaths == [slot \in Slots |-> manifestPath(slot[1], slot[2])]
IndexPaths == [kind \in Kinds |-> indexPath(kind)]

\* what the repository holds at a path below its root: [found, data]
RepoFile(files, path) ==
    IF \E slot \in Slots : ManifestPaths[slot] = path
    THEN LET slot == CHOOSE slot \in Slots : ManifestPaths[slot] = path
         IN  [found |-> files.manifest[slot] # Absent, data |-> files.manifest[slot]]
    ELSE IF \E kind \in Kinds : IndexPaths[kind] = path
    THEN LET kind == CHOOSE kind \in Kinds : IndexPaths[kind] = path
         IN  [found |-> files.index[kind].state # Absent, data |-> files.index[kind]]
    ELSE [found |-> FALSE, data |-> Absent]

\* the outcome of reading a file: its bytes, or the error when it is not there
readOutcome(file, err) ==
    IF file.found THEN [err |-> Nil, content |-> file.data] ELSE [err |-> err, content |-> Absent]

\* fetchLocal: read base/path
fetchLocal(s, path) ==
    readOutcome(RepoFile(s.files, path),
                [t |-> "readingLocal", path |-> Join(TrimSuffix(s.baseURL, S_slash), path)])

\* fetchRemote: one GET of base+path; a status other than 200 is an error
fetchRemote(s, path) ==
    readOutcome(RepoFile(s.files, path), [t |-> "status", path |-> s.baseURL \o path])

\* fetch
fetch(s, path) == IF s.isLocal THEN fetchLocal(s, path) ELSE fetchRemote(s, path)

\* the bytes parsed as GetManifest does: malformed bytes are an error
parsed(got, kind) ==
    IF got.err = Nil /\ got.content # GoodYaml
    THEN [err |-> [t |-> "parsingIndex", kind |-> kind], content |-> Absent]
    ELSE got

\* a mutant: the manifest is parsed, as GetManifest does
GetManifestParsed(s, kind, name) == parsed(fetch(s, manifestPath(kind, name)), kind)

\* GetManifestRaw: the raw bytes, not parsed
GetManifestRaw(s, kind, name) == fetch(s, manifestPath(kind, name))

----------------------------------------------------------------------------
\* Index files

EmptyMap == [n \in {} |-> Nil]

\* the capability lists of at most MaxSkills names
SkillLists == UNION {[1..k -> SkillNames] : k \in 0..MaxSkills}

\* ProfileIndexEntry: the fields the installer reads
ProfileIndexEntries == [Persona : PersonaNames \cup {NoName}, Skills : SkillLists]

\* the bytes of an index file: malformed, or YAML with a map under each top-level key
IndexFile(skills, personas, profiles) ==
    [state |-> GoodYaml, skills |-> skills, personas |-> personas, profiles |-> profiles]
MalformedIndex == [state |-> BadYaml, skills |-> EmptyMap, personas |-> EmptyMap, profiles |-> EmptyMap]
AbsentIndex == [state |-> Absent, skills |-> EmptyMap, personas |-> EmptyMap, profiles |-> EmptyMap]

\* the profiles/index.yaml files the repository may serve
ProfileIndexFiles ==
    {IndexFile(EmptyMap, EmptyMap, [n \in names |-> e]) :
        names \in SUBSET ProfileNames, e \in ProfileIndexEntries}

\* parseIndex: the map under the key of the kind, or a parse error
parseIndex(content, kind) ==
    IF content.state # GoodYaml
    THEN [err |-> [t |-> "parsingIndex", kind |-> kind], entries |-> EmptyMap, profiles |-> EmptyMap]
    ELSE CASE kind = KindSkill ->
                [err |-> Nil, entries |-> content.skills, profiles |-> EmptyMap]
           [] kind = KindPersona ->
                [err |-> Nil, entries |-> content.personas, profiles |-> EmptyMap]
           [] kind = KindProfile ->
                [err |-> Nil, entries |-> EmptyMap, profiles |-> content.profiles]

----------------------------------------------------------------------------
\* Cache

\* CacheTTL, in hours
CacheTTL == 1

S_indexKey == <<"-","i","n","d","e","x",".","y","a","m","l">>

\* the cache file name of a kind's index
cacheKey(kind) == Plural(kind) \o S_indexKey

CacheKeys == {cacheKey(kind) : kind \in Kinds}

NoEntry == [present |-> FALSE, content |-> AbsentIndex, mtime |-> 0]

\* how the cache directory behaves during a call: in order, or with reads
\* failing, writes failing before the file is opened, writes failing after
\* the file was truncated (left empty, or cut short), or removal failing
DiskOk == "ok"
DiskUnreadable == "unreadable"
DiskUnwritable == "unwritable"
DiskEmptied == "emptied"
DiskCut == "cut"
DiskUnremovable == "unremovable"
DiskModes == {DiskOk, DiskUnreadable, DiskUnwritable, DiskEmptied, DiskCut, DiskUnremovable}

Miss == [ok |-> FALSE, content |-> AbsentIndex]

\* a mutant: the age of the entry is not looked at
GetIgnoringTTL(c, name, disk) ==
    IF noCache THEN Miss
    ELSE IF ~c[name].present THEN Miss
    ELSE IF disk = DiskUnreadable THEN Miss
    ELSE [ok |-> TRUE, content |-> c[name].content]

\* Cache.Get: a hit needs the cache enabled, the file present, not older than
\* the TTL, and readable
Get(c, name, disk) ==
    IF noCache THEN Miss
    ELSE IF ~c[name].present THEN Miss
    ELSE IF now - c[name].mtime > CacheTTL THEN Miss
    ELSE IF disk = DiskUnreadable THEN Miss
    ELSE [ok |-> TRUE, content |-> c[name].content]

\* a zero-length index file: it parses, and lists nothing
EmptiedIndex == [state |-> GoodYaml, skills |-> EmptyMap, personas |-> EmptyMap, profiles |-> EmptyMap]

\* the cache file after os.WriteFile of content: the content, stamped with the
\* current time; or what a failed write leaves behind
written(entry, content, disk) ==
    CASE disk = DiskUnwritable -> entry
      [] disk = DiskEmptied -> [present |-> TRUE, content |-> EmptiedIndex, mtime |-> now]
      [] disk = DiskCut -> [present |-> TRUE, content |-> MalformedIndex, mtime |-> now]
      [] OTHER -> [present |-> TRUE, content |-> content, mtime |-> now]

\* Cache.Set: [cache, err]; nothing happens when the cache is disabled
Set(c, name, content, disk) ==
    IF noCache THEN [cache |-> c, err |-> Nil]
    ELSE [cache |-> [c EXCEPT ![name] = written(c[name], content, disk)],
          err |-> IF disk \in {DiskUnwritable, DiskEmptied, DiskCut}
                  THEN [t |-> "writingCache"] ELSE Nil]

\* Cache.InvalidateAll: [cache, err]; the directory is removed with all its
\* files, or the removal fails and the files in kept stay
InvalidateAll(c, disk, kept) ==
    IF disk = DiskUnremovable
    THEN [cache |-> [k \in CacheKeys |-> IF k \in kept THEN c[k] ELSE NoEntry],
          err |-> [t |-> "removingCache"]]
    ELSE [cache |-> [k \in CacheKeys |-> NoEntry], err |-> Nil]

\* the event of one getIndex: served from the cache (hit), or by a fetch that succeeded (ok)
IndexRead(kind, hit, ok) == [e |-> "index", kind |-> kind, name |-> NoName, ok |-> ok, hit |-> hit]

\* a mutant: an error of the write-through fails the call
fetchedIndexStrict(content, set, kind) ==
    IF set.err # Nil
    THEN [idx |-> [err |-> set.err, entries |-> EmptyMap, profiles |-> EmptyMap],
          cache |-> set.cache, ev |-> IndexRead(kind, FALSE, TRUE)]
    ELSE [idx |-> parseIndex(content, kind), cache |-> set.cache, ev |-> IndexRead(kind, FALSE, TRUE)]

\* getIndex on a miss, after the fetch: the write-through, its error dropped,
\* then the parse
fetchedIndex(content, set, kind) ==
    [idx |-> parseIndex(content, kind), cache |-> set.cache, ev |-> IndexRead(kind, FALSE, TRUE)]

\* a mutant: when the fetch fails, an entry that is present is used whatever its age
indexFromStale(hit, got, c, kind, disk) ==
    IF hit.ok
    THEN [idx |-> parseIndex(hit.content, kind), cache |-> c,
          ev |-> IndexRead(kind, TRUE, FALSE)]
    ELSE IF got.err # Nil /\ c[cacheKey(kind)].present /\ ~noCache
    THEN [idx |-> parseIndex(c[cacheKey(kind)].content, kind), cache |-> c,
          ev |-> IndexRead(kind, FALSE, FALSE)]
    ELSE IF got.err # Nil
    THEN [idx |-> [err |-> got.err, entries |-> EmptyMap, profiles |-> EmptyMap], cache |-> c,
          ev |-> IndexRead(kind, FALSE, FALSE)]
    ELSE fetchedIndex(got.content, Set(c, cacheKey(kind), got.content, disk), kind)

\* a mutant: fetched bytes that do not parse are not written to the cache
indexFromParsedFirst(hit, got, c, kind, disk) ==
    IF hit.ok
    THEN [idx |-> parseIndex(hit.content, kind), cache |-> c,
          ev |-> IndexRead(kind, TRUE, FALSE)]
    ELSE IF got.err # Nil
    THEN [idx |-> [err |-> got.err, entries |-> EmptyMap, profiles |-> EmptyMap], cache |-> c,
          ev |-> IndexRead(kind, FALSE, FALSE)]
    ELSE IF got.content.state # GoodYaml
    THEN [idx |-> parseIndex(got.content, kind), cache |-> c, ev |-> IndexRead(kind, FALSE, TRUE)]
    ELSE fetchedIndex(got.content, Set(c, cacheKey(kind), got.content, disk), kind)

\* getIndex after Cache.Get returned hit; got is the outcome of the fetch made on a miss
indexFrom(hit, got, c, kind, disk) ==
    IF hit.ok
    THEN [idx |-> parseIndex(hit.content, kind), cache |-> c,
          ev |-> IndexRead(kind, TRUE, FALSE)]
    ELSE IF got.err # Nil
    THEN [idx |-> [err |-> got.err, entries |-> EmptyMap, profiles |-> EmptyMap], cache |-> c,
          ev |-> IndexRead(kind, FALSE, FALSE)]
    ELSE fetchedIndex(got.content, Set(c, cacheKey(kind), got.content, disk), kind)

\* getIndex: the cached bytes on a hit; else one fetch, written through, then parsed
getIndex(s, c, kind) ==
    indexFrom(Get(c, cacheKey(kind), s.files.disk), fetch(s, indexPath(kind)), c, kind, s.files.disk)

----------------------------------------------------------------------------
\* Installer
\*
\* A call threads st = [err, fs, cache, log]: the error so far (Nil while the
\* call goes on), the install directory, the cache and the events of the call.

NoFile == "none"

InstallOptions == [Force : BOOLEAN, NoDeps : BOOLEAN, DryRun : BOOLEAN]

Stat(kind, name, exists) == [e |-> "stat", kind |-> kind, name |-> name, ok |-> exists]
Fetched(kind, name, ok) == [e |-> "fetch", kind |-> kind, name |-> name, ok |-> ok]
Wrote(kind, name) == [e |-> "write", kind |-> kind, name |-> name, ok |-> TRUE]
Entry(name, profile) ==
    [e |-> "entry", kind |-> KindProfile, name |-> name, ok |-> TRUE,
     persona |-> profile.Persona, skills |-> profile.Skills]
Tolerated(kind, name) == [e |-> "tolerated", kind |-> kind, name |-> name, ok |-> TRUE]

\* os.Stat(destPath) succeeds: the manifest file is there
destExists(dir, kind, name) == dir[<<kind, name>>] # NoFile

\* a mutant: the Force test inverted
alreadyInstalledWhenForced(dir, kind, name, opts) == destExists(dir, kind, name) /\ opts.Force

\* Install refuses: the manifest exists and Force is not set
alreadyInstalled(dir, kind, name, opts) == destExists(dir, kind, name) /\ ~opts.Force

\* a mutant: dependencies resolved for every kind
resolvesDepsOfAnyKind(kind, opts) == ~opts.NoDeps

\* Install resolves dependencies: a profile, unless NoDeps
resolvesDeps(kind, opts) == kind = KindProfile /\ ~opts.NoDeps

\* a mutant: dependencies always forced
depOptsForced(opts) == [Force |-> TRUE, NoDeps |-> TRUE, DryRun |-> opts.DryRun]

\* a mutant: dependencies installed for real in a dry run
depOptsNotDry(opts) == [Force |-> opts.Force, NoDeps |-> TRUE, DryRun |-> FALSE]

\* a mutant: Force not handed down to the dependencies
depOptsUnforced(opts) == [Force |-> FALSE, NoDeps |-> TRUE, DryRun |-> opts.DryRun]

\* the options a dependency is installed with
depOpts(opts) == [Force |-> opts.Force, NoDeps |-> TRUE, DryRun |-> opts.DryRun]

\* a mutant: no dependency error is tolerated
toleratedDepErrorNever(opts, err) == FALSE

\* a dependency's error that installProfileDeps does not propagate
toleratedDepError(opts, err) == ~opts.Force /\ isAlreadyInstalledError(err)

\* a mutant: the manifest is written re-serialised instead of as fetched
writeManifestNormalised(dir, kind, name, content) == [dir EXCEPT ![<<kind, name>>] = GoodYaml]

\* os.MkdirAll and os.WriteFile: the manifest file holds the content
writeManifest(dir, kind, name, content) == [dir EXCEPT ![<<kind, name>>] = content]

\* Install stops before writing
stopsBeforeWrite(opts) == opts.DryRun

\* the call goes on with one more event in its log
logged(st, ev) == [st EXCEPT !.log = Append(st.log, ev)]

\* the call ends with an error
failed(st, err) == [st EXCEPT !.err = err]

\* Install after GetManifestRaw returned got: the error wrapped, or the bytes
\* written unless DryRun
writeFetched(got, st, kind, name, opts) ==
    IF got.err # Nil
    THEN failed(logged(st, Fetched(kind, name, FALSE)),
                [t |-> "fetchingItem", kind |-> kind, name |-> name, cause |-> got.err])
    ELSE IF stopsBeforeWrite(opts)
    THEN logged(st, Fetched(kind, name, TRUE))
    ELSE [st EXCEPT !.fs = writeManifest(st.fs, kind, name, got.content),
                    !.log = st.log \o <<Fetched(kind, name, TRUE), Wrote(kind, name)>>]

\* the end of Install: fetch the manifest, and write it unless DryRun
fetchAndWrite(s, st, kind, name, opts) ==
    writeFetched(GetManifestRaw(s, kind, name), st, kind, name, opts)

RECURSIVE Install(_, _, _, _, _)

\* what installProfileDeps makes of the outcome r of a dependency's Install:
\* its error is tolerated or wrapped
depOutcome(r, kind, name, opts) ==
    IF r.err = Nil THEN r
    ELSE IF toleratedDepError(opts, r.err)
    THEN [r EXCEPT !.err = Nil, !.log = Append(r.log, Tolerated(kind, name))]
    ELSE failed(r, [t |-> IF kind = KindPersona THEN "installingPersona" ELSE "installingSkill",
                    name |-> name, cause |-> r.err])

\* one dependency of a profile: installed with depOpts
installDep(s, st, kind, name, opts) ==
    depOutcome(Install(s, st, kind, name, depOpts(opts)), kind, name, opts)

RECURSIVE installSkills(_, _, _, _, _)

\* the loop over profile.Skills after the skill at position i gave r: the
\* first error ends it
nextSkill(s, r, skillList, i, opts) ==
    IF r.err # Nil THEN r ELSE installSkills(s, r, skillList, i + 1, opts)

\* the loop over profile.Skills, from position i
installSkills(s, st, skillList, i, opts) ==
    IF i > Len(skillList) THEN st
    ELSE nextSkill(s, installDep(s, st, KindSkill, skillList[i], opts), skillList, i, opts)

\* the persona step of installProfileDeps
installPersona(s, st, profile, opts) ==
    IF profile.Persona # NoName
    THEN installDep(s, st, KindPersona, profile.Persona, opts)
    ELSE st

\* installProfileDeps after the persona step gave p
skillsAfterPersona(s, p, profile, opts) ==
    IF p.err # Nil THEN p ELSE installSkills(s, p, profile.Skills, 1, opts)

\* installProfileDeps on the profile's index entry: the persona, then the skills
installEntry(s, st, profile, opts) ==
    skillsAfterPersona(s, installPersona(s, st, profile, opts), profile, opts)

\* a mutant: a profile the index does not list is installed without dependencies
depsFromIndexLenient(s, st, g, profileName, opts) ==
    IF g.idx.err # Nil
    THEN failed([st EXCEPT !.cache = g.cache, !.log = Append(st.log, g.ev)], g.idx.err)
    ELSE IF profileName \notin DOMAIN g.idx.profiles
    THEN [st EXCEPT !.cache = g.cache, !.log = Append(st.log, g.ev)]
    ELSE installEntry(s, [st EXCEPT !.cache = g.cache,
                                    !.log = st.log \o <<g.ev, Entry(profileName, g.idx.profiles[profileName])>>],
                      g.idx.profiles[profileName], opts)

\* installProfileDeps after getIndex returned g
depsFromIndex(s, st, g, profileName, opts) ==
    IF g.idx.err # Nil
    THEN failed([st EXCEPT !.cache = g.cache, !.log = Append(st.log, g.ev)], g.idx.err)
    ELSE IF profileName \notin DOMAIN g.idx.profiles
    THEN failed([st EXCEPT !.cache = g.cache, !.log = Append(st.log, g.ev)],
                [t |-> "profileNotFound", name |-> profileName])
    ELSE installEntry(s, [st EXCEPT !.cache = g.cache,
                                    !.log = st.log \o <<g.ev, Entry(profileName, g.idx.profiles[profileName])>>],
                      g.idx.profiles[profileName], opts)

\* installProfileDeps
installProfileDeps(s, st, profileName, opts) ==
    depsFromIndex(s, st, getIndex(s, st.cache, KindProfile), profileName, opts)

\* Install after the dependencies gave d: an error ends the call
afterDeps(s, d, kind, name, opts) ==
    IF d.err # Nil THEN d ELSE fetchAndWrite(s, d, kind, name, opts)

\* a mutant's step: the dependencies after the item's own manifest gave w
depsAfterManifest(s, w, kind, name, opts) ==
    IF w.err # Nil THEN w
    ELSE IF resolvesDeps(kind, opts) THEN installProfileDeps(s, w, name, opts)
    ELSE w

\* a mutant: the item's own manifest is fetched and written before its dependencies
InstallManifestFirst(s, st, kind, name, opts) ==
    IF alreadyInstalled(st.fs, kind, name, opts)
    THEN failed(logged(st, Stat(kind, name, TRUE)),
                [t |-> "alreadyInstalled", kind |-> kind, name |-> name])
    ELSE depsAfterManifest(s,
            fetchAndWrite(s, logged(st, Stat(kind, name, destExists(st.fs, kind, name))),
                          kind, name, opts),
            kind, name, opts)

\* Source.Install
Install(s, st, kind, name, opts) ==
    IF alreadyInstalled(st.fs, kind, name, opts)
    THEN failed(logged(st, Stat(kind, name, TRUE)),
                [t |-> "alreadyInstalled", kind |-> kind, name |-> name])
    ELSE afterDeps(s,
            IF resolvesDeps(kind, opts)
            THEN installProfileDeps(s, logged(st, Stat(kind, name, destExists(st.fs, kind, name))),
                                    name, opts)
            ELSE logged(st, Stat(kind, name, destExists(st.fs, kind, name))),
            kind, name, opts)

----------------------------------------------------------------------------
\* Info and UpdateCache
\*
\* A call of these threads st = [err, cache, log].

NoInfo == [Kind |-> KindSkill, Name |-> NoName, Installed |-> FALSE]

\* a mutant: installed only when the manifest file parses
infoFromLoading(g, dir, kind, name) ==
    IF g.idx.err # Nil
    THEN [err |-> g.idx.err, info |-> NoInfo, cache |-> g.cache, log |-> <<g.ev>>]
    ELSE IF name \notin DOMAIN (IF kind = KindProfile THEN g.idx.profiles ELSE g.idx.entries)
    THEN [err |-> [t |-> "notFound", kind |-> kind, name |-> name], info |-> NoInfo,
          cache |-> g.cache, log |-> <<g.ev>>]
    ELSE [err |-> Nil,
          info |-> [Kind |-> kind, Name |-> name, Installed |-> dir[<<kind, name>>] = GoodYaml],
          cache |-> g.cache, log |-> <<g.ev>>]

\* Source.Info after getIndex returned g: the name is looked up in the map of
\* the kind, then the manifest file is probed
infoFrom(g, dir, kind, name) ==
    IF g.idx.err # Nil
    THEN [err |-> g.idx.err, info |-> NoInfo, cache |-> g.cache, log |-> <<g.ev>>]
    ELSE IF name \notin DOMAIN (IF kind = KindProfile THEN g.idx.profiles ELSE g.idx.entries)
    THEN [err |-> [t |-> "notFound", kind |-> kind, name |-> name], info |-> NoInfo,
          cache |-> g.cache, log |-> <<g.ev>>]
    ELSE [err |-> Nil,
          info |-> [Kind |-> kind, Name |-> name, Installed |-> destExists(dir, kind, name)],
          cache |-> g.cache, log |-> <<g.ev>>]

\* Source.Info
Info(s, c, dir, kind, name) == infoFrom(getIndex(s, c, kind), dir, kind, name)

\* the kinds in the order UpdateCache fetches them
UpdateOrder == <<KindSkill, KindPersona, KindProfile>>

RECURSIVE refresh(_, _, _)

\* the loop of UpdateCache after getIndex of the kind at position i returned g
refreshed(s, st, g, i) ==
    IF g.idx.err # Nil
    THEN [err |-> [t |-> "fetchingIndex", kind |-> UpdateOrder[i], cause |-> g.idx.err],
          cache |-> g.cache, log |-> Append(st.log, g.ev)]
    ELSE refresh(s, [st EXCEPT !.cache = g.cache, !.log = Append(st.log, g.ev)], i + 1)

\* the loop of UpdateCache, from position i
refresh(s, st, i) ==
    IF i > Len(UpdateOrder) THEN st
    ELSE refreshed(s, st, getIndex(s, st.cache, UpdateOrder[i]), i)

\* a mutant: the cache is not emptied before the indexes are fetched
updateFromKeeping(s, c, inv) ==
    refresh(s, [err |-> Nil, cache |-> c, log |-> <<>>], 1)

\* UpdateCache after InvalidateAll returned inv
updateFrom(s, c, inv) ==
    IF inv.err # Nil
    THEN [err |-> [t |-> "invalidatingCache", cause |-> inv.err], cache |-> inv.cache, log |-> <<>>]
    ELSE refresh(s, [err |-> Nil, cache |-> inv.cache, log |-> <<>>], 1)

\* Source.UpdateCache
UpdateCache(s, c) == updateFrom(s, c, InvalidateAll(c, s.files.disk, s.files.kept))

----------------------------------------------------------------------------
\* State machine

Idle == [op |-> "idle"]

\* the source locations a client is configured with
S_localRepo == <<"/","s","r","v","/","r","e","p","o">>
S_localOdd == <<"/","d","a","t","a","/","a","l","r","e","a","d","y"," ","i","n","s","t","a","l","l","e","d","/">>
S_remote == <<"h","t","t","p","s",":","/","/","h","u","b","/">>
Locations == {S_localRepo, S_localOdd, S_remote}

\* the repository's manifests: all in order, or one of them absent or malformed
AllPublished == [x \in Slots |-> GoodYaml]
Manifests ==
    {AllPublished} \cup {[AllPublished EXCEPT ![x] = v] : x \in Slots, v \in {Absent, BadYaml}}

\* the skills and personas indexes list every published name
ListingIndex(kind) ==
    IF kind = KindSkill
    THEN IndexFile([n \in SkillNames |-> [Tags |-> <<>>]], EmptyMap, EmptyMap)
    ELSE IndexFile(EmptyMap, [n \in PersonaNames |-> [Tags |-> <<>>]], EmptyMap)

\* a well-formed profiles index without entries
EmptyProfileIndex == IndexFile(EmptyMap, EmptyMap, EmptyMap)

\* the repository's indexes: any profiles index, fetchable or not
Indexes ==
    {[k \in Kinds |-> IF k = KindProfile THEN f ELSE ListingIndex(k)] :
        f \in ProfileIndexFiles \cup {MalformedIndex, AbsentIndex}}

\* what the repository may hold while a call for (kind, opts) runs. A call that
\* never reads profiles/index.yaml is the same call whatever that file holds,
\* so one index stands for all of them there.
AllRepositories ==
    {[manifest |-> m, index |-> x, disk |-> DiskOk, kept |-> {}] : m \in Manifests, x \in Indexes}
PlainRepositories == {r \in AllRepositories : r.index[KindProfile] = EmptyProfileIndex}
Repositories(kind, opts) == IF resolvesDeps(kind, opts) THEN AllRepositories ELSE PlainRepositories

\* NewClient(WithNoCache(), ...) over an empty install directory
Init ==
    /\ noCache = TRUE
    /\ cache = [k \in CacheKeys |-> NoEntry]
    /\ now = 0
    /\ fs = [x \in Slots |-> NoFile]
    /\ last = Idle

\* Source.Install returned r: the install directory and the cache are as the
\* call left them
returned(r, kind, itemName, location, files, opts) ==
    /\ fs' = r.fs
    /\ cache' = r.cache
    /\ last' = [op |-> "Install", kind |-> kind, name |-> itemName, opts |-> opts,
                location |-> location, manifest |-> files.manifest,
                index |-> files.index[KindProfile], err |-> r.err, log |-> r.log, fs0 |-> fs]

\* Client.Install after ParseItemName: a fresh Source on the configured
\* location, then Source.Install
installParsed(item, location, files, opts) ==
    returned(Install(NewSource(location, files),
                     [err |-> Nil, fs |-> fs, cache |-> cache, log |-> <<>>],
                     item[1], item[2], opts),
             item[1], item[2], location, files, opts)

\* Client.Install for one name
ClientInstall(location, files, input, opts) ==
    /\ installParsed(ParseItemName(input), location, files, opts)
    /\ UNCHANGED <<noCache, now>>

\* the caller takes the outcome of the call and goes on
Report ==
    /\ last.op # "idle"
    /\ last' = Idle
    /\ UNCHANGED <<noCache, cache, now, fs>>

\* the user runs "install" on one name, against some location whose repository
\* holds some files
InstallCommand ==
    /\ last.op = "idle"
    /\ \E location \in Locations, input \in Inputs, opts \in InstallOptions :
          \E files \in Repositories(ParseItemName(input)[1], opts) :
             ClientInstall(location, files, input, opts)

Next ==
    \/ InstallCommand
    \/ Report

Spec == Init /\ [][Next]_vars

----------------------------------------------------------------------------
\* A cache directory shared by successive clients, with or without caching

\* the clock stops at MaxTime
MaxTime == 2

\* the source: every name listed, or nothing published
Stocked ==
    [k \in Kinds |->
        IF k = KindProfile
        THEN IndexFile(EmptyMap, EmptyMap,
                       [n \in ProfileNames |-> [Persona |-> <<"p", "1">>, Skills |-> <<<<"s", "1">>>>]])
        ELSE ListingIndex(k)]
Bare == [k \in Kinds |-> EmptiedIndex]
Editions == {Stocked, Bare}

\* the index files of an edition with the one of kind k replaced
Spoilt(k) == {[x EXCEPT ![k] = f] : x \in Editions, f \in {MalformedIndex, AbsentIndex}}

\* what surrounds a call that reads the index of kind k only: the source in
\* order with the cache directory in some mode, or the kind's index spoilt
IndexEnvs ==
    [k \in Kinds |->
        {[manifest |-> AllPublished, index |-> x, disk |-> d, kept |-> {}] :
            x \in Editions, d \in DiskModes \ {DiskUnremovable}}
        \cup {[manifest |-> AllPublished, index |-> x, disk |-> DiskOk, kept |-> {}] : x \in Spoilt(k)}]

\* what surrounds a call of UpdateCache: the same, with any one index spoilt,
\* or a cache directory whose removal fails and leaves some files
UpdateEnvs ==
    UNION {IndexEnvs[k] : k \in Kinds}
    \cup {[manifest |-> AllPublished, index |-> x, disk |-> DiskUnremovable, kept |-> kept] :
            x \in Editions, kept \in SUBSET CacheKeys}

\* NewClient, with or without WithNoCache, over an empty cache directory
InitCache ==
    /\ noCache \in BOOLEAN
    /\ cache = [k \in CacheKeys |-> NoEntry]
    /\ now = 0
    /\ fs = [x \in Slots |-> NoFile]
    /\ last = Idle

\* a later client on the same cache directory
NewClient ==
    /\ last.op = "idle"
    /\ noCache' \in BOOLEAN
    /\ UNCHANGED <<cache, now, fs, last>>

\* an hour passes
Tick ==
    /\ last.op = "idle"
    /\ now < MaxTime
    /\ now' = now + 1
    /\ UNCHANGED <<noCache, cache, fs, last>>

\* Source.Info returned r
infoReturned(r, item, env) ==
    /\ cache' = r.cache
    /\ last' = [op |-> "Info", kind |-> item[1], name |-> item[2], served |-> env.index,
                disk |-> env.disk, kept |-> env.kept, err |-> r.err, log |-> r.log,
                info |-> r.info, cache0 |-> cache]

\* Client.Info after ParseItemName
infoParsed(item, location, env) ==
    infoReturned(Info(NewSource(location, env), cache, fs, item[1], item[2]), item, env)

\* Client.Info for one name
ClientInfo(location, env, input) ==
    /\ infoParsed(ParseItemName(input), location, env)
    /\ UNCHANGED <<noCache, now, fs>>

InfoCommand ==
    /\ last.op = "idle"
    /\ \E input \in Inputs :
          \E env \in IndexEnvs[ParseItemName(input)[1]] : ClientInfo(S_remote, env, input)

\* Source.UpdateCache returned r
updateReturned(r, env) ==
    /\ cache' = r.cache
    /\ last' = [op |-> "UpdateCache", kind |-> KindSkill, name |-> NoName, served |-> env.index,
                disk |-> env.disk, kept |-> env.kept, err |-> r.err, log |-> r.log,
                info |-> NoInfo, cache0 |-> cache]

\* Client.UpdateCache
ClientUpdateCache(location, env) ==
    /\ updateReturned(UpdateCache(NewSource(location, env), cache), env)
    /\ UNCHANGED <<noCache, now, fs>>

UpdateCacheCommand ==
    /\ last.op = "idle"
    /\ \E env \in UpdateEnvs : ClientUpdateCache(S_remote, env)

NextCache ==
    \/ NewClient
    \/ Tick
    \/ InfoCommand
    \/ UpdateCacheCommand
    \/ Report

SpecCache == InitCache /\ [][NextCache]_vars

----------------------------------------------------------------------------
\* Properties of Install, stated on the call the CLI is reporting on:
\* last.fs0 is the install directory before the call, fs the one after it.

IsInstall == last.op = "Install"

\* the manifest file of the requested item
Dest == <<last.kind, last.name>>

\* the positions of the call's events
Events == 1..Len(last.log)

\* the call looked the profile up in the index and found its entry
FoundEntry == \E i \in Events : last.log[i].e = "entry"
TheEntry == last.log[CHOOSE i \in Events : last.log[i].e = "entry"]

\* the dependencies the entry names
DepSlots(entry) ==
    (IF entry.persona # NoName THEN {<<KindPersona, entry.persona>>} ELSE {})
        \cup {<<KindSkill, entry.skills[i]>> : i \in DOMAIN entry.skills}

\* the repository can serve the manifest
Fetchable(slot) == last.manifest[slot] # Absent

\* C1: Install without force of an item whose manifest file exists fails with the
\* already-installed error, and the only thing the call did is the existence
\* check: no index read, no fetch, no dependency step, no change of the
\* install directory, also for a profile with dependencies to resolve.
C1_InstalledIsRefused ==
    (IsInstall /\ ~last.opts.Force /\ last.fs0[Dest] # NoFile) =>
        /\ last.err = [t |-> "alreadyInstalled", kind |-> last.kind, name |-> last.name]
        /\ last.log = <<Stat(last.kind, last.name, TRUE)>>
        /\ fs = last.fs0

C1_Witness ==
    /\ IsInstall /\ ~last.opts.Force /\ ~last.opts.NoDeps /\ last.kind = KindProfile
    /\ last.fs0[Dest] # NoFile
    /\ last.err.t = "alreadyInstalled"
    /\ \E x \in Slots : last.fs0[x] = NoFile

\* C2: Install without dependency resolution, without force and not a dry run,
\* of an item that has no manifest file and whose manifest the source serves,
\* succeeds and changes exactly one file of the install directory: the item's
\* manifest, which holds the fetched bytes as they are.
C2_InstallWritesOneFile ==
    (IsInstall /\ ~(last.kind = KindProfile /\ ~last.opts.NoDeps)
        /\ ~last.opts.Force /\ ~last.opts.DryRun
        /\ last.fs0[Dest] = NoFile /\ Fetchable(Dest)) =>
            /\ last.err = Nil
            /\ fs[Dest] = last.manifest[Dest]
            /\ \A x \in Slots \ {Dest} : fs[x] = last.fs0[x]

C2_Witness ==
    /\ IsInstall /\ last.kind = KindPersona
    /\ ~last.opts.Force /\ ~last.opts.DryRun
    /\ last.fs0[Dest] = NoFile /\ last.manifest[Dest] = BadYaml
    /\ last.err = Nil /\ fs[Dest] = BadYaml
    /\ \E x \in Slots \ {Dest} : fs[x] # NoFile

\* C3: the content of a manifest file that exists changes only in a call made
\* with force; a call without force, with its dependency installs, leaves
\* every existing manifest as it is, and the install directory holds one
\* manifest file, or none, for each kind and name.
C3_OverwriteNeedsForce ==
    /\ fs \in [Slots -> Bytes \cup {NoFile}]
    /\ IsInstall =>
          \A x \in Slots :
             (last.fs0[x] # NoFile /\ fs[x] # last.fs0[x]) => last.opts.Force

C3_Witness ==
    /\ IsInstall /\ last.kind = KindProfile /\ ~last.opts.NoDeps /\ ~last.opts.Force
    /\ last.err = Nil /\ FoundEntry
    /\ \E x \in DepSlots(TheEntry) :
          last.fs0[x] # NoFile /\ last.manifest[x] \notin {Absent, last.fs0[x]} /\ fs[x] = last.fs0[x]
    /\ \E x \in DepSlots(TheEntry) : last.fs0[x] = NoFile /\ fs[x] # NoFile

DepList(entry) ==
    (IF entry.persona # NoName THEN <<<<KindPersona, entry.persona>>>> ELSE <<>>)
        \o [i \in DOMAIN entry.skills |-> <<KindSkill, entry.skills[i]>>]

\* C5 (as claimed): whenever Install of a profile with its dependencies, not a
\* dry run, returns success, the install directory holds a manifest for the
\* profile, for the persona its index entry names and for every capability
\* the entry lists.
C5_SuccessMeansAllPresent ==
    (IsInstall /\ last.kind = KindProfile /\ ~last.opts.NoDeps /\ ~last.opts.DryRun
        /\ last.err = Nil) =>
            /\ FoundEntry
            /\ fs[Dest] # NoFile
            /\ \A x \in DepSlots(TheEntry) : fs[x] # NoFile

\* the rank of an event in the order of a profile install: the profile's
\* existence check, the index read, the entry, the persona, the capabilities,
\* and last the profile's own manifest
Rank(ev) ==
    CASE ev.e = "stat" /\ ev.kind = KindProfile -> 0
      [] ev.e = "index" -> 1
      [] ev.e = "entry" -> 2
      [] ev.kind = KindPersona -> 3
      [] ev.kind = KindSkill -> 4
      [] OTHER -> 5

\* the positions of the existence checks of the dependencies, in order
RECURSIVE DepStats(_)
DepStats(n) ==
    IF n = 0 THEN <<>>
    ELSE IF last.log[n].e = "stat" /\ last.log[n].kind # KindProfile
         THEN Append(DepStats(n - 1), n)
         ELSE DepStats(n - 1)

\* C6: the events of one Install of a profile with its dependencies come in
\* this order: the profile's existence check, the index read, the persona
\* install, the capability installs in the order of the index entry, one
\* after the other, and only then the fetch and the write of the profile's
\* manifest, which happen only when every dependency has been attempted.
C6_DependenciesInOrder ==
    (IsInstall /\ last.kind = KindProfile /\ ~last.opts.NoDeps) =>
        LET log == last.log
            stats == DepStats(Len(log))
        IN  /\ log[1] = Stat(last.kind, last.name, last.fs0[Dest] # NoFile)
            /\ \A i, j \in Events : i < j => Rank(log[i]) <= Rank(log[j])
            /\ Cardinality({i \in Events : log[i].e = "index"}) <= 1
            /\ FoundEntry =>
                  /\ Len(stats) <= Len(DepList(TheEntry))
                  /\ \A k \in DOMAIN stats :
                        <<log[stats[k]].kind, log[stats[k]].name>> = DepList(TheEntry)[k]
                  \* the events between two existence checks belong to the first
                  /\ \A i \in Events : \A k \in DOMAIN stats :
                        (i > stats[k] /\ Rank(log[i]) \in {3, 4}
                            /\ (k = Len(stats) \/ i < stats[k + 1])) =>
                                <<log[i].kind, log[i].name>> = DepList(TheEntry)[k]
            /\ (\E i \in Events : Rank(log[i]) = 5) =>
                  FoundEntry /\ Len(stats) = Len(DepList(TheEntry))

C6_Witness ==
    /\ IsInstall /\ last.kind = KindProfile /\ ~last.opts.NoDeps /\ last.err = Nil
    /\ FoundEntry
    /\ TheEntry.persona # NoName
    /\ Len(TheEntry.skills) = MaxSkills
    /\ TheEntry.skills[1] # TheEntry.skills[2]
    /\ \E i, j \in Events :
          /\ i < j
          /\ last.log[i] = Wrote(KindSkill, TheEntry.skills[2])
          /\ last.log[j] = Wrote(KindProfile, last.name)
    /\ last.log[Len(last.log)] = Wrote(KindProfile, last.name)

\* C7 (as claimed): in a profile install a dependency whose manifest cannot
\* be fetched aborts the call with an error naming the dependency; only the
\* already-installed condition of a dependency, without force, is passed over.
C7_FetchFailureAborts ==
    (IsInstall /\ last.kind = KindProfile /\ ~last.opts.NoDeps) =>
        \A i \in Events :
            (last.log[i].e = "fetch" /\ ~last.log[i].ok /\ last.log[i].kind # KindProfile) =>
                /\ i = Len(last.log)
                /\ last.err.t \in {"installingPersona", "installingSkill"}
                /\ last.err.name = last.log[i].name

\* the source serves the profiles index and the index has the profile's entry
IndexHasEntry == last.index.state = GoodYaml /\ last.name \in DOMAIN last.index.profiles

\* the dependencies the served index names for the profile
ServedDeps ==
    DepSlots([persona |-> last.index.profiles[last.name].Persona,
              skills |-> last.index.profiles[last.name].Skills])

\* C8: Install without force of a profile that is not installed, with its
\* dependencies, succeeds when the source serves the index entry, the
\* profile's manifest and the manifest of every dependency that is not
\* installed: the installed dependencies keep their manifest files as they
\* are, the missing ones get the fetched manifests, the profile's manifest is
\* written, and nothing else changes.
C8_InstalledDependenciesSkipped ==
    (IsInstall /\ last.kind = KindProfile
        /\ ~last.opts.Force /\ ~last.opts.NoDeps /\ ~last.opts.DryRun
        /\ last.fs0[Dest] = NoFile /\ IndexHasEntry /\ Fetchable(Dest)
        /\ (\A x \in ServedDeps : last.fs0[x] = NoFile => Fetchable(x))) =>
            /\ last.err = Nil
            /\ fs[Dest] = last.manifest[Dest]
            /\ \A x \in ServedDeps :
                  fs[x] = IF last.fs0[x] # NoFile THEN last.fs0[x] ELSE last.manifest[x]
            /\ \A x \in Slots \ (ServedDeps \cup {Dest}) : fs[x] = last.fs0[x]

C8_Witness ==
    /\ IsInstall /\ last.kind = KindProfile
    /\ ~last.opts.Force /\ ~last.opts.NoDeps /\ ~last.opts.DryRun
    /\ last.fs0[Dest] = NoFile /\ IndexHasEntry /\ last.err = Nil
    /\ \E x, y \in ServedDeps :
          /\ last.fs0[x] # NoFile /\ last.manifest[x] \notin {Absent, last.fs0[x]}
          /\ fs[x] = last.fs0[x]
          /\ last.fs0[y] = NoFile /\ fs[y] = last.manifest[y]
    /\ \E i \in Events : last.log[i].e = "tolerated"

Written == {<<last.log[i].kind, last.log[i].name>> : i \in {j \in Events : last.log[j].e = "write"}}

C10_ForceOverwrites ==
    (IsInstall /\ last.opts.Force /\ ~last.opts.DryRun /\ last.fs0[Dest] # NoFile
        /\ Fetchable(Dest)
        /\ ((last.kind = KindProfile /\ ~last.opts.NoDeps) =>
              (IndexHasEntry /\ \A x \in ServedDeps : Fetchable(x)))) =>
            /\ last.err = Nil
            /\ fs[Dest] = last.manifest[Dest]
            /\ (last.kind = KindProfile /\ ~last.opts.NoDeps) =>
                  \A x \in ServedDeps : fs[x] = last.manifest[x]

C10_Witness ==
    /\ IsInstall /\ last.opts.Force /\ ~last.opts.DryRun /\ ~last.opts.NoDeps
    /\ last.kind = KindProfile /\ last.fs0[Dest] = BadYaml
    /\ IndexHasEntry /\ last.err = Nil
    /\ fs[Dest] = GoodYaml
    /\ \E x, y \in ServedDeps :
          /\ last.fs0[x] = BadYaml /\ fs[x] = GoodYaml
          /\ last.fs0[y] = GoodYaml /\ fs[y] = BadYaml

----------------------------------------------------------------------------
\* Search

\* strings.ToLower, on the letters used here
lowerChar(ch) == CASE ch = "A" -> "a" [] ch = "B" -> "b" [] OTHER -> ch
ToLower(str) == [i \in 1..Len(str) |-> lowerChar(str[i])]

\* strings.EqualFold
EqualFold(a, b) == ToLower(a) = ToLower(b)

\* strings.Contains: the empty string is contained in every string
Contains(str, substr) ==
    \E i \in 0..(Len(str) - Len(substr)) : SubSeq(str, i + 1, i + Len(substr)) = substr

\* the byte of a letter
byte(ch) ==
    CASE ch = "1" -> 49 [] ch = "2" -> 50 [] ch = "A" -> 65 [] ch = "B" -> 66
      [] ch = "a" -> 97 [] ch = "b" -> 98 [] ch = "f" -> 102 [] ch = "p" -> 112
      [] ch = "s" -> 115 [] OTHER -> 120

\* Go's a < b on strings: bytewise, a proper prefix is smaller
StringLess(a, b) ==
    \E i \in 1..Len(b) :
        /\ i <= Len(a) + 1
        /\ \A j \in 1..(i - 1) : a[j] = b[j]
        /\ (i = Len(a) + 1 \/ byte(a[i]) < byte(b[i]))

\* the members of a list
Members(list) == {list[i] : i \in 1..Len(list)}

\* scores, in tenths
ScoreExact == 10
ScoreName == 8
ScoreTag == 7
ScoreTagPart == 6
ScoreDescription == 5
ScoreDependency == 4

\* a mutant: the weight of the last rule that matches, not the largest
raiseAlways(score, cond, w) == IF cond THEN w ELSE score

\* if score < w { score = w }, under a condition
raise(score, cond, w) == IF cond /\ score < w THEN w ELSE score

\* the tag filter lets the entry through: some tag equals some filter tag
hasMatchingTag(tags, filterTags) ==
    \E f \in Members(filterTags), t \in Members(tags) : EqualFold(t, f)

\* a mutant: the exact match is scored like any name that contains the query
calculateScoreNoExact(query, name, entry, filterTags) ==
    IF Len(filterTags) > 0 /\ ~hasMatchingTag(entry.Tags, filterTags) THEN 0
    ELSE raise(raise(raise(IF Contains(ToLower(name), query) THEN ScoreName ELSE 0,
                           \E t \in Members(entry.Tags) : EqualFold(t, query), ScoreTag),
                     \E t \in Members(entry.Tags) : Contains(ToLower(t), query), ScoreTagPart),
               Contains(ToLower(entry.Description), query), ScoreDescription)

\* a mutant: the tag filter is not applied
calculateScoreUnfiltered(query, name, entry, filterTags) ==
    IF ToLower(name) = query THEN ScoreExact
    ELSE raise(raise(raise(IF Contains(ToLower(name), query) THEN ScoreName ELSE 0,
                           \E t \in Members(entry.Tags) : EqualFold(t, query), ScoreTag),
                     \E t \in Members(entry.Tags) : Contains(ToLower(t), query), ScoreTagPart),
               Contains(ToLower(entry.Description), query), ScoreDescription)

\* calculateScore
calculateScore(query, name, entry, filterTags) ==
    IF Len(filterTags) > 0 /\ ~hasMatchingTag(entry.Tags, filterTags) THEN 0
    ELSE IF ToLower(name) = query THEN ScoreExact
    ELSE raise(raise(raise(IF Contains(ToLower(name), query) THEN ScoreName ELSE 0,
                           \E t \in Members(entry.Tags) : EqualFold(t, query), ScoreTag),
                     \E t \in Members(entry.Tags) : Contains(ToLower(t), query), ScoreTagPart),
               Contains(ToLower(entry.Description), query), ScoreDescription)

\* calculateProfileScore
calculateProfileScore(query, name, entry, filterTags) ==
    IF Len(filterTags) > 0 THEN 0
    ELSE IF ToLower(name) = query THEN ScoreExact
    ELSE raise(raise(raise(IF Contains(ToLower(name), query) THEN ScoreName ELSE 0,
                           Contains(ToLower(entry.Description), query), ScoreDescription),
                     \E sk \in Members(entry.Skills) : Contains(ToLower(sk), query), ScoreDependency),
               Contains(ToLower(entry.Persona), query), ScoreDependency)

\* the empty Kind of SearchOptions: every kind is searched
NoKind == "any"

\* SearchResult of an entry of a skills or personas index
entryResult(kind, name, entry, score) ==
    [Kind |-> kind, Name |-> name, Description |-> entry.Description, Tags |-> entry.Tags,
     Score |-> score]

\* SearchResult of an entry of the profiles index: no tags
profileResult(name, entry, score) ==
    [Kind |-> KindProfile, Name |-> name, Description |-> entry.Description, Tags |-> <<>>,
     Score |-> score]

\* the results Search appends for one kind: the entries with a score above 0
kindResults(g, kind, query, tags) ==
    IF kind = KindProfile
    THEN {r \in {profileResult(n, g.idx.profiles[n],
                               calculateProfileScore(query, n, g.idx.profiles[n], tags)) :
                    n \in DOMAIN g.idx.profiles} : r.Score > 0}
    ELSE {r \in {entryResult(kind, n, g.idx.entries[n],
                             calculateScore(query, n, g.idx.entries[n], tags)) :
                    n \in DOMAIN g.idx.entries} : r.Score > 0}

\* the less function Search sorts with
less(a, b) == IF a.Score # b.Score THEN a.Score > b.Score ELSE StringLess(a.Name, b.Name)

RECURSIVE Sorted(_)
\* what sort.Slice may return for the results: every order in which no result
\* comes after one it is less than. The sort is not stable and the indexes are
\* walked in map order, so results that less does not tell apart come in any order.
Sorted(results) ==
    IF results = {} THEN {<<>>}
    ELSE UNION {{<<r>> \o rest : rest \in Sorted(results \ {r})} :
                    r \in {x \in results : \A y \in results : ~less(y, x)}}

\* a mutant: a limit of 0 cuts too
limitedFromZero(ranked, limit) ==
    IF limit >= 0 /\ Len(ranked) > limit THEN SubSeq(ranked, 1, limit) ELSE ranked

\* the limit: the first Limit results, when Limit is above 0
limited(ranked, limit) ==
    IF limit > 0 /\ Len(ranked) > limit THEN SubSeq(ranked, 1, limit) ELSE ranked

\* the kinds Search walks
searchKinds(opts) == IF opts.Kind # NoKind THEN <<opts.Kind>> ELSE UpdateOrder

RECURSIVE searchFrom(_, _, _, _, _, _)

\* a mutant: a kind whose index cannot be read is left out
searchedLenient(s, st, g, query, opts, kinds, i) ==
    IF g.idx.err # Nil
    THEN searchFrom(s, [st EXCEPT !.cache = g.cache, !.log = Append(st.log, g.ev)],
                    query, opts, kinds, i + 1)
    ELSE searchFrom(s, [err |-> Nil, cache |-> g.cache, log |-> Append(st.log, g.ev),
                        results |-> st.results \cup kindResults(g, kinds[i], query, opts.Tags)],
                    query, opts, kinds, i + 1)

\* the loop of Search after getIndex of the kind at position i returned g
searched(s, st, g, query, opts, kinds, i) ==
    IF g.idx.err # Nil
    THEN [err |-> g.idx.err, cache |-> g.cache, log |-> Append(st.log, g.ev), results |-> {}]
    ELSE searchFrom(s, [err |-> Nil, cache |-> g.cache, log |-> Append(st.log, g.ev),
                        results |-> st.results \cup kindResults(g, kinds[i], query, opts.Tags)],
                    query, opts, kinds, i + 1)

\* the loop of Search over the kinds, from position i
searchFrom(s, st, query, opts, kinds, i) ==
    IF i > Len(kinds) THEN st
    ELSE searched(s, st, getIndex(s, st.cache, kinds[i]), query, opts, kinds, i)

\* Search after the loop: [err, cache, log, outcomes], outcomes the result
\* lists the call may return, each with the sorted list it was cut from
ranked(st, opts) ==
    [err |-> st.err, cache |-> st.cache, log |-> st.log,
     outcomes |-> IF st.err # Nil THEN {[full |-> <<>>, results |-> <<>>]}
                  ELSE {[full |-> r, results |-> limited(r, opts.Limit)] : r \in Sorted(st.results)}]

\* Source.Search
Search(s, c, query, opts) ==
    ranked(searchFrom(s, [err |-> Nil, cache |-> c, log |-> <<>>, results |-> {}],
                      ToLower(query), opts, searchKinds(opts), 1),
           opts)

----------------------------------------------------------------------------
\* Searches of a client without caching

\* the largest limit asked for
MaxLimit == 2

\* entries of the skills and personas indexes
PlainEntry == [Description |-> <<>>, Tags |-> <<>>]
RichEntry == [Description |-> <<"x","a","b">>, Tags |-> <<<<"A">>, <<"b","x">>>>]

\* entries of the profiles index
PlainProfile == [Description |-> <<>>, Persona |-> <<"a">>, Skills |-> <<<<"b">>>>]
RichProfile == [Description |-> <<"a","b">>, Persona |-> <<>>, Skills |-> <<>>]

\* the maps from some of the names to some of the entries
Listings(names, entries) == UNION {[ns -> entries] : ns \in SUBSET names}

\* the repositories searched
Catalogues ==
    {[k \in Kinds |-> CASE k = KindSkill -> IndexFile(sk, EmptyMap, EmptyMap)
                        [] k = KindPersona -> IndexFile(EmptyMap, pe, EmptyMap)
                        [] k = KindProfile -> IndexFile(EmptyMap, EmptyMap, pr)] :
        sk \in Listings({<<"a">>, <<"A","b">>}, {PlainEntry, RichEntry}),
        pe \in Listings({<<"a">>, <<"b">>}, {PlainEntry, RichEntry}),
        pr \in Listings({<<"a">>}, {PlainProfile, RichProfile})}

\* the repository with every entry, and the same with the index of one kind
\* malformed or not served
FullCatalogue ==
    [k \in Kinds |-> CASE k = KindSkill ->
                            IndexFile([n \in {<<"a">>, <<"A","b">>} |-> RichEntry], EmptyMap, EmptyMap)
                        [] k = KindPersona ->
                            IndexFile(EmptyMap, [n \in {<<"a">>, <<"b">>} |-> RichEntry], EmptyMap)
                        [] k = KindProfile ->
                            IndexFile(EmptyMap, EmptyMap, [n \in {<<"a">>} |-> RichProfile])]
SpoiltCatalogues ==
    {[FullCatalogue EXCEPT ![k] = f] : k \in Kinds, f \in {MalformedIndex, AbsentIndex}}

SearchEnvs ==
    {[manifest |-> AllPublished, index |-> x, disk |-> DiskOk, kept |-> {}] :
        x \in Catalogues \cup SpoiltCatalogues}

Queries == {<<>>, <<"a">>, <<"A">>, <<"b">>, <<"a","b">>, <<"x">>}

TagFilters == {<<>>, <<<<"a">>>>, <<<<"B","x">>, <<"x">>>>}

SearchOptions == [Kind : Kinds \cup {NoKind}, Tags : TagFilters, Limit : -1..MaxLimit]

\* Source.Search returned r: one of the result lists it may return
searchReturned(r, query, opts, env) ==
    /\ cache' = r.cache
    /\ \E out \in r.outcomes :
          last' = [op |-> "Search", query |-> query, opts |-> opts, served |-> env.index,
                   err |-> r.err, log |-> r.log, full |-> out.full, results |-> out.results]

\* Client.Search
ClientSearch(location, env, query, opts) ==
    /\ searchReturned(Search(NewSource(location, env), cache, query, opts), query, opts, env)
    /\ UNCHANGED <<noCache, now, fs>>

SearchCommand ==
    /\ last.op = "idle"
    /\ \E query \in Queries, opts \in SearchOptions, env \in SearchEnvs :
          ClientSearch(S_remote, env, query, opts)

NextSearch ==
    \/ SearchCommand
    \/ Report

SpecSearch == Init /\ [][NextSearch]_vars

----------------------------------------------------------------------------
\* List, and a client that installs, asks for information and lists

RECURSIVE ascending(_)
\* os.ReadDir: the entries sorted by file name
ascending(names) ==
    IF names = {} THEN <<>>
    ELSE <<CHOOSE n \in names : \A m \in names : ~StringLess(m, n)>>
         \o ascending(names \ {CHOOSE n \in names : \A m \in names : ~StringLess(m, n)})

\* the directories below the directory of a kind
entriesOf(dir, kind) == ascending({x[2] : x \in {y \in DOMAIN dir : y[1] = kind}})

\* LoadManifest of the manifest file of an entry fails: unreadable or malformed
loadFails(dir, kind, name) == dir[<<kind, name>>] # GoodYaml

RECURSIVE listEntries(_, _, _, _, _)
\* the inner loop of List, from entry i of a kind: an entry without a manifest
\* file or with one that does not load is skipped
listEntries(dir, kind, entries, i, items) ==
    IF i > Len(entries) THEN items
    ELSE IF ~destExists(dir, kind, entries[i]) THEN listEntries(dir, kind, entries, i + 1, items)
    ELSE IF loadFails(dir, kind, entries[i]) THEN listEntries(dir, kind, entries, i + 1, items)
    ELSE listEntries(dir, kind, entries, i + 1, Append(items, [Kind |-> kind, Name |-> entries[i]]))

RECURSIVE listKinds(_, _, _, _)
\* the outer loop of List, from kind i
listKinds(dir, kinds, i, items) ==
    IF i > Len(kinds) THEN [err |-> Nil, items |-> items]
    ELSE listKinds(dir, kinds, i + 1, listEntries(dir, kinds[i], entriesOf(dir, kinds[i]), 1, items))

\* Client.List
List(dir, kind) == listKinds(dir, IF kind # NoKind THEN <<kind>> ELSE UpdateOrder, 1, <<>>)

\* Client.List returned r; the call it follows is kept with it
listReturned(r, kind) ==
    /\ last' = [op |-> "List", kind |-> kind, err |-> r.err, items |-> r.items, after |-> last]
    /\ UNCHANGED <<noCache, cache, now, fs>>

\* the kinds the user lists: any, or after an install all kinds or the
\* kind of the item
ListedKinds == IF last.op = "Install" THEN {NoKind, last.kind} ELSE Kinds \cup {NoKind}

\* the user runs "list", at any time or right after a call of install returned
ListCommand ==
    /\ last.op \in {"idle", "Install"}
    /\ \E kind \in ListedKinds : listReturned(List(fs, kind), kind)

NextDir ==
    \/ InstallCommand
    \/ InfoCommand
    \/ ListCommand
    \/ Report

SpecDir == Init /\ [][NextDir]_vars

----------------------------------------------------------------------------
\* Two calls of Install for the same item at the same time
\*
\* Each call is at one of the places where Install touches the install
\* directory or waits for the source: before os.Stat, before GetManifestRaw,
\* before MkdirAll and WriteFile, or returned.

Calls == {1, 2}

\* no force; the item's own steps only
RaceOptions == [Force |-> FALSE, NoDeps |-> TRUE, DryRun |-> FALSE]

\* the two calls start
StartInstalls ==
    /\ last.op = "idle"
    /\ \E input \in Inputs, m \in Manifests :
          last' = [op |-> "Installs", kind |-> ParseItemName(input)[1],
                   name |-> ParseItemName(input)[2], manifest |-> m,
                   pc |-> [c \in Calls |-> "stat"], err |-> [c \in Calls |-> Nil],
                   content |-> [c \in Calls |-> Absent], writes |-> 0, fs0 |-> fs]
    /\ UNCHANGED <<noCache, cache, now, fs>>

\* os.Stat(destPath) and the test of Force
StatStep(c) ==
    /\ last.op = "Installs" /\ last.pc[c] = "stat"
    /\ last' = IF alreadyInstalled(fs, last.kind, last.name, RaceOptions)
               THEN [last EXCEPT !.pc[c] = "done",
                                 !.err[c] = [t |-> "alreadyInstalled", kind |-> last.kind,
                                             name |-> last.name]]
               ELSE [last EXCEPT !.pc[c] = "fetch"]
    /\ UNCHANGED <<noCache, cache, now, fs>>

\* Install after GetManifestRaw returned got
fetchedStep(c, got) ==
    last' = IF got.err # Nil
            THEN [last EXCEPT !.pc[c] = "done",
                              !.err[c] = [t |-> "fetchingItem", kind |-> last.kind,
                                          name |-> last.name, cause |-> got.err]]
            ELSE [last EXCEPT !.pc[c] = "write", !.content[c] = got.content]

\* GetManifestRaw
FetchStep(c) ==
    /\ last.op = "Installs" /\ last.pc[c] = "fetch"
    /\ fetchedStep(c, GetManifestRaw(NewSource(S_remote,
                                               [manifest |-> last.manifest,
                                                index |-> [k \in Kinds |-> EmptiedIndex],
                                                disk |-> DiskOk, kept |-> {}]),
                                     last.kind, last.name))
    /\ UNCHANGED <<noCache, cache, now, fs>>

\* os.MkdirAll and os.WriteFile, and the return
WriteStep(c) ==
    /\ last.op = "Installs" /\ last.pc[c] = "write"
    /\ fs' = writeManifest(fs, last.kind, last.name, last.content[c])
    /\ last' = [last EXCEPT !.pc[c] = "done", !.writes = last.writes + 1]
    /\ UNCHANGED <<noCache, cache, now>>

\* both calls have returned and the callers go on
InstallsReport ==
    /\ last.op = "Installs"
    /\ \A c \in Calls : last.pc[c] = "done"
    /\ last' = Idle
    /\ UNCHANGED <<noCache, cache, now, fs>>

NextRace ==
    \/ StartInstalls
    \/ \E c \in Calls : StatStep(c)
    \/ \E c \in Calls : FetchStep(c)
    \/ \E c \in Calls : WriteStep(c)
    \/ InstallsReport

SpecRace == Init /\ [][NextRace]_vars

----------------------------------------------------------------------------
\* Claims about the cache, over SpecCache

IsInfo == last.op = "Info"
IsUpdate == last.op = "UpdateCache"

\* the cache file of the kind Info asked for, as it was before the call
Entry0 == last.cache0[cacheKey(last.kind)]

\* the map of a kind in the bytes of an index file
Listed(content, kind) == IF kind = KindProfile THEN content.profiles ELSE content.skills @@ content.personas

\* the outcome of Info is the one the bytes give: a parse error, not found, or the item
AnswersFrom(content) ==
    IF content.state # GoodYaml THEN last.err = [t |-> "parsingIndex", kind |-> last.kind]
    ELSE IF last.name \in DOMAIN Listed(content, last.kind) THEN last.err = Nil
    ELSE last.err = [t |-> "notFound", kind |-> last.kind, name |-> last.name]

\* C12: Cache.Get, as Info's getIndex calls it, hits exactly when the cache is
\* enabled, the entry is present and readable and its age is at most the TTL;
\* the hit carries the stored bytes, and a hit or a miss for which nothing is
\* fetched leaves the cache as it was.
C12_GetHitsWithinTTL ==
    IsInfo =>
        /\ last.log[1].hit <=>
              (~noCache /\ Entry0.present /\ last.disk # DiskUnreadable
                  /\ now - Entry0.mtime <= CacheTTL)
        /\ last.log[1].hit => (AnswersFrom(Entry0.content) /\ cache = last.cache0)
        /\ (~last.log[1].hit /\ ~last.log[1].ok) => cache = last.cache0

C12_Witness ==
    /\ IsInfo /\ ~noCache /\ Entry0.present /\ last.disk = DiskOk
    /\ now - Entry0.mtime > CacheTTL
    /\ ~last.log[1].hit
    /\ Entry0.content # last.served[last.kind]

\* C13: getIndex, as Info calls it, answers a hit from the cached bytes
\* without a fetch, whatever the source serves by then; on a miss it fetches
\* the index once and answers from the fetched bytes, also when the
\* write-through to the cache fails.
C13_HitSkipsSource ==
    IsInfo =>
        /\ Len(last.log) = 1
        /\ last.log[1].hit => (~last.log[1].ok /\ AnswersFrom(Entry0.content))
        /\ (~last.log[1].hit /\ last.served[last.kind].state # Absent) =>
              (last.log[1].ok /\ AnswersFrom(last.served[last.kind]))
        /\ (~last.log[1].hit /\ last.served[last.kind].state = Absent) =>
              (~last.log[1].ok /\ last.err.t = "status")

C13_Witness ==
    /\ IsInfo /\ last.log[1].hit
    /\ Entry0.content = Bare[last.kind] /\ last.served = Stocked
    /\ last.err = [t |-> "notFound", kind |-> last.kind, name |-> last.name]

\* C14 (as claimed): a cache entry is only ever created or replaced by the
\* write-through of an index fetch that succeeded in the call, and it then
\* holds, in full, exactly the bytes the source served for its kind.
C14_EntriesHoldFetchedBytes ==
    [][\A kind \in Kinds :
          (cache'[cacheKey(kind)] # cache[cacheKey(kind)] /\ cache'[cacheKey(kind)].present) =>
              /\ last'.op \in {"Info", "UpdateCache"}
              /\ \E i \in 1..Len(last'.log) : last'.log[i] = IndexRead(kind, FALSE, TRUE)
              /\ cache'[cacheKey(kind)] =
                    [present |-> TRUE, content |-> last'.served[kind], mtime |-> now]]_vars

\* C15 (as claimed): with the cache disabled every getIndex misses and
\* fetches, and no call creates, changes or removes a cache entry.
C15_DisabledCacheUntouched ==
    [][noCache =>
          /\ cache' = cache
          /\ last'.op \in {"Info", "UpdateCache"} =>
                \A i \in 1..Len(last'.log) : ~last'.log[i].hit]_vars

\* the cache file of a kind after the call
EntryOf(kind) == cache[cacheKey(kind)]

\* the cache file of a kind holds the bytes the source served in the call
HoldsServed(kind) == EntryOf(kind) = [present |-> TRUE, content |-> last.served[kind], mtime |-> now]

\* the position in UpdateOrder of the first kind whose index the source does
\* not serve well-formed; 0 when all are
FirstSpoilt ==
    IF \A i \in 1..3 : last.served[UpdateOrder[i]].state = GoodYaml THEN 0
    ELSE CHOOSE i \in 1..3 : /\ last.served[UpdateOrder[i]].state # GoodYaml
                             /\ \A j \in 1..(i - 1) : last.served[UpdateOrder[j]].state = GoodYaml

\* C16 (as claimed): UpdateCache with caching enabled removes every entry,
\* then fetches the skills, personas and profiles indexes in that order. When
\* it succeeds all three entries hold the bytes served in the call; when the
\* fetch or parse of a kind fails the call fails with the wrapped error, the
\* kinds before it are cached, the kinds after it are absent.
C16_UpdateRefillsCache ==
    (IsUpdate /\ ~noCache) =>
        /\ last.err = Nil => \A kind \in Kinds : HoldsServed(kind)
        /\ FirstSpoilt # 0 =>
              /\ last.err.t = "fetchingIndex" /\ last.err.kind = UpdateOrder[FirstSpoilt]
              /\ \A j \in 1..(FirstSpoilt - 1) : HoldsServed(UpdateOrder[j])
              /\ \A j \in (FirstSpoilt + 1)..3 : ~EntryOf(UpdateOrder[j]).present

\* what the write-through of a kind's index left in an emptied cache
Refilled(kind) ==
    IF noCache \/ last.disk = DiskUnwritable THEN ~EntryOf(kind).present
    ELSE IF last.disk \in {DiskEmptied, DiskCut}
    THEN EntryOf(kind).present /\ EntryOf(kind).mtime = now
    ELSE HoldsServed(kind)

\* C16 (amended): UpdateCache removes every entry, then fetches the skills,
\* personas and profiles indexes in that order. When the removal fails the
\* call fails before any fetch. When all are served well-formed it succeeds,
\* and each entry holds the bytes served if its write-through succeeded (with
\* caching enabled); when the fetch or parse of a kind fails the call fails
\* with the wrapped error, the kinds before it are written through, the kinds
\* after it are absent, and no entry from before the call is left.
C16_UpdateEmptiesThenRefills ==
    IsUpdate =>
        /\ last.disk = DiskUnremovable =>
              /\ last.err = [t |-> "invalidatingCache", cause |-> [t |-> "removingCache"]]
              /\ last.log = <<>>
              /\ \A k \in CacheKeys : cache[k] = IF k \in last.kept THEN last.cache0[k] ELSE NoEntry
        /\ (last.disk # DiskUnremovable /\ FirstSpoilt = 0) =>
              /\ last.err = Nil
              /\ \A kind \in Kinds : Refilled(kind)
        /\ (last.disk # DiskUnremovable /\ FirstSpoilt # 0) =>
              /\ last.err.t = "fetchingIndex" /\ last.err.kind = UpdateOrder[FirstSpoilt]
              /\ Len(last.log) = FirstSpoilt
              /\ \A j \in 1..(FirstSpoilt - 1) : Refilled(UpdateOrder[j])
              /\ \A j \in (FirstSpoilt + 1)..3 : ~EntryOf(UpdateOrder[j]).present
              /\ last.served[UpdateOrder[FirstSpoilt]].state = Absent =>
                    ~EntryOf(UpdateOrder[FirstSpoilt]).present
              /\ last.served[UpdateOrder[FirstSpoilt]].state = BadYaml =>
                    Refilled(UpdateOrder[FirstSpoilt])
        /\ last.disk # DiskUnremovable =>
              \A i \in 1..Len(last.log) : last.log[i].kind = UpdateOrder[i] /\ ~last.log[i].hit

C16_Witness ==
    /\ IsUpdate /\ ~noCache /\ last.disk = DiskOk
    /\ FirstSpoilt = 2
    /\ last.cache0[cacheKey(KindProfile)].present
    /\ last.cache0[cacheKey(KindSkill)].present
    /\ last.cache0[cacheKey(KindSkill)].content # last.served[KindSkill]
    /\ HoldsServed(KindSkill)
    /\ ~EntryOf(KindProfile).present
    /\ last.err.t = "fetchingIndex"

----------------------------------------------------------------------------
\* Claims about Search, over SpecSearch

IsSearch == last.op = "Search"

\* the kinds the call searched
SearchedKinds == IF last.opts.Kind = NoKind THEN Kinds ELSE {last.opts.Kind}

\* the entries of the searched kinds in the served indexes, as <<kind, name>>
SearchedEntries ==
    UNION {{<<k, n>> : n \in DOMAIN Listed(last.served[k], k)} : k \in SearchedKinds}

\* the index entry of <<kind, name>>
Served(kn) == Listed(last.served[kn[1]], kn[1])[kn[2]]

\* the name of the entry is the query, whatever the case of the letters
ExactMatch(kn) == EqualFold(kn[2], last.query)

\* the tag filter does not exclude the entry: there is no filter, or the entry
\* is not a profile and one of its tags is, whatever the case, one of the filter's
PassesFilter(kn) ==
    \/ Len(last.opts.Tags) = 0
    \/ /\ kn[1] # KindProfile
       /\ \E t \in Members(Served(kn).Tags), f \in Members(last.opts.Tags) :
             ToLower(t) = ToLower(f)

\* the entry is returned with score 1.0 and only results with score 1.0 come
\* before it, or the limit is filled with results of score 1.0
RanksFirst(kn) ==
    \/ \E i \in 1..Len(last.results) :
          /\ last.results[i].Kind = kn[1] /\ last.results[i].Name = kn[2]
          /\ last.results[i].Score = ScoreExact
          /\ \A j \in 1..(i - 1) : last.results[j].Score = ScoreExact
    \/ /\ last.opts.Limit > 0 /\ Len(last.results) = last.opts.Limit
       /\ \A j \in 1..Len(last.results) : last.results[j].Score = ScoreExact

\* C18, as stated: in a search that succeeds, every entry of a searched kind
\* whose name is the query, whatever the case, has score 1.0 and ranks first.
C18_ExactMatchRanksFirst ==
    (IsSearch /\ last.err = Nil) =>
        \A kn \in SearchedEntries : ExactMatch(kn) => RanksFirst(kn)

\* C18, amended: in a search that succeeds, every entry of a searched kind
\* that the tag filter does not exclude and whose name is the query, whatever
\* the case, has score 1.0 and ranks first.
C18_UnfilteredExactMatchRanksFirst ==
    (IsSearch /\ last.err = Nil) =>
        \A kn \in SearchedEntries : (ExactMatch(kn) /\ PassesFilter(kn)) => RanksFirst(kn)

C18_Witness ==
    /\ IsSearch /\ last.err = Nil /\ Len(last.opts.Tags) > 0
    /\ \E i, j \in 1..Len(last.results) :
          /\ i < j
          /\ last.results[i].Name # last.query
          /\ ExactMatch(<<last.results[i].Kind, last.results[i].Name>>)
          /\ last.results[i].Score = ScoreExact
          /\ last.results[j].Score < ScoreExact

\* C19: the results of a search are in one order fixed by the entries alone:
\* each result has a higher score than the next, or the same score and a
\* smaller name, so that no two results are left for the sort to place.
C19_ResultsTotallyOrdered ==
    (IsSearch /\ last.err = Nil) =>
        \A i, j \in 1..Len(last.results) :
            i < j =>
                \/ last.results[i].Score > last.results[j].Score
                \/ /\ last.results[i].Score = last.results[j].Score
                   /\ StringLess(last.results[i].Name, last.results[j].Name)

\* the score of the entry in a search for the same query without a tag filter
UnfilteredScore(kn) ==
    IF kn[1] = KindProfile
    THEN calculateProfileScore(ToLower(last.query), kn[2], Served(kn), <<>>)
    ELSE calculateScore(ToLower(last.query), kn[2], Served(kn), <<>>)

\* the entry is among the results
Returned(kn) ==
    \E i \in 1..Len(last.results) : last.results[i].Kind = kn[1] /\ last.results[i].Name = kn[2]

\* the limit cut the results
Cut == last.opts.Limit > 0 /\ Len(last.results) = last.opts.Limit

\* C20: in a search that succeeds with a non-empty tag filter, every result
\* is a capability or a persona with a tag that is, whatever the case, one of
\* the filter's, and no result is a profile; every result has the score it has
\* without the filter, and every entry with such a tag and a score above 0
\* without the filter is returned unless the limit cut the results.
C20_TagFilterExcludes ==
    (IsSearch /\ last.err = Nil /\ Len(last.opts.Tags) > 0) =>
        /\ \A i \in 1..Len(last.results) :
              /\ last.results[i].Kind # KindProfile
              /\ PassesFilter(<<last.results[i].Kind, last.results[i].Name>>)
              /\ last.results[i].Score = UnfilteredScore(<<last.results[i].Kind, last.results[i].Name>>)
        /\ \A kn \in SearchedEntries :
              (PassesFilter(kn) /\ UnfilteredScore(kn) > 0) => (Returned(kn) \/ Cut)

C20_Witness ==
    /\ IsSearch /\ last.err = Nil /\ Len(last.opts.Tags) > 0
    /\ \E i \in 1..Len(last.results) :
          /\ Members(last.results[i].Tags) \cap Members(last.opts.Tags) = {}
          /\ last.results[i].Score \in {ScoreTagPart, ScoreDescription}
    /\ \E kn \in SearchedEntries :
          kn[1] # KindProfile /\ ~PassesFilter(kn) /\ UnfilteredScore(kn) = ScoreExact
    /\ \E kn \in SearchedEntries : kn[1] = KindProfile /\ UnfilteredScore(kn) > 0

\* the score Search gives the entry under the tag filter of the call
FilteredScore(kn) ==
    IF kn[1] = KindProfile
    THEN calculateProfileScore(ToLower(last.query), kn[2], Served(kn), last.opts.Tags)
    ELSE calculateScore(ToLower(last.query), kn[2], Served(kn), last.opts.Tags)

\* the entries that match: those of the searched kinds with a score above 0
Matches == {kn \in SearchedEntries : FilteredScore(kn) > 0}

Min(a, b) == IF a < b THEN a ELSE b

\* C21: in a search that succeeds, the sorted list holds every match once;
\* with a limit N above 0 the results are its first min(N, matchCount)
\* elements in the same order, and with a limit of 0 or below the results
\* are the whole list.
C21_LimitCutsRanking ==
    (IsSearch /\ last.err = Nil) =>
        /\ Len(last.full) = Cardinality(Matches)
        /\ {<<last.full[i].Kind, last.full[i].Name>> : i \in 1..Len(last.full)} = Matches
        /\ IF last.opts.Limit > 0
           THEN /\ Len(last.results) = Min(last.opts.Limit, Cardinality(Matches))
                /\ \A i \in 1..Len(last.results) : last.results[i] = last.full[i]
           ELSE last.results = last.full

C21_Witness ==
    /\ IsSearch /\ last.err = Nil
    /\ last.opts.Limit = 2
    /\ Cardinality(Matches) > 3
    /\ Len(last.results) = 2
    /\ last.results[1].Score > last.results[2].Score
    /\ last.full[3].Score = last.results[2].Score

\* the query and the fields of the entry, in lower case
Q == ToLower(last.query)
NameOf(kn) == ToLower(kn[2])
DescriptionOf(kn) == ToLower(Served(kn).Description)
TagsOf(kn) == {ToLower(t) : t \in Members(Served(kn).Tags)}
RefsOf(kn) == {ToLower(n) : n \in Members(Served(kn).Skills) \cup {Served(kn).Persona}}

\* the weights, in tenths, of the rules that match the entry
RuleWeights(kn) ==
    {w \in {10} : NameOf(kn) = Q}
    \cup {w \in {8} : Contains(NameOf(kn), Q)}
    \cup {w \in {5} : Contains(DescriptionOf(kn), Q)}
    \cup (IF kn[1] = KindProfile
          THEN {w \in {4} : \E n \in RefsOf(kn) : Contains(n, Q)}
          ELSE {w \in {7} : Q \in TagsOf(kn)}
               \cup {w \in {6} : \E t \in TagsOf(kn) : Contains(t, Q)})

\* the largest of the weights, 0 when no rule matches
RuleScore(kn) ==
    IF RuleWeights(kn) = {} THEN 0
    ELSE CHOOSE w \in RuleWeights(kn) : \A v \in RuleWeights(kn) : v <= w

\* the place of the entry in the sorted list, 0 when it is not in it
PlaceOf(kn) ==
    IF \E i \in 1..Len(last.full) : last.full[i].Kind = kn[1] /\ last.full[i].Name = kn[2]
    THEN CHOOSE i \in 1..Len(last.full) : last.full[i].Kind = kn[1] /\ last.full[i].Name = kn[2]
    ELSE 0

----------------------------------------------------------------------------
\* Claims about Info and List, over SpecDir

IsList == last.op = "List"

\* the kinds a call of List covers
ListCovers(kind) == last.kind \in {NoKind, kind}

\* C24: List returns without an error one item for each manifest file of a
\* covered kind that exists and parses, and nothing else; and the item of a
\* call of Install without DryRun that returned success is among the items of
\* the call of List that follows it.
C24_ListShowsInstalled ==
    IsList =>
        /\ last.err = Nil
        /\ \A x \in DOMAIN fs :
              (ListCovers(x[1]) /\ fs[x] = GoodYaml) =>
                  Cardinality({i \in 1..Len(last.items) :
                                  last.items[i] = [Kind |-> x[1], Name |-> x[2]]}) = 1
        /\ \A i \in 1..Len(last.items) :
              /\ ListCovers(last.items[i].Kind)
              /\ fs[<<last.items[i].Kind, last.items[i].Name>>] = GoodYaml
        /\ (last.after.op = "Install" /\ last.after.err = Nil /\ ~last.after.opts.DryRun) =>
              \E i \in 1..Len(last.items) :
                  last.items[i] = [Kind |-> last.after.kind, Name |-> last.after.name]

----------------------------------------------------------------------------
\* More claims about Install, over Spec

\* the number of events of the call that are of the sort e and about the slot
Count(e, slot) ==
    Cardinality({i \in Events : last.log[i].e = e /\ <<last.log[i].kind, last.log[i].name>> = slot})

\* the number of times the entry names the slot as a dependency
Named(entry, slot) ==
    Cardinality({i \in DOMAIN DepList(entry) : DepList(entry)[i] = slot})

\* the slots the call may touch: its own, and the dependencies of the entry
\* it found
Touched == {Dest} \cup (IF FoundEntry THEN DepSlots(TheEntry) ELSE {})

\* C25: every call of Install returns, and its events are those of two levels
\* of calls at most: the index is read once at most, and only by a profile
\* install that resolves dependencies; the item itself is checked once and
\* fetched once at most; each dependency the index entry names is checked and
\* fetched at most as often as the entry names it, without a lookup of its
\* own; and no other item is touched.
C25_InstallNestsOnce ==
    IsInstall =>
        /\ Cardinality({i \in Events : last.log[i].e = "index"})
              <= (IF last.kind = KindProfile /\ ~last.opts.NoDeps THEN 1 ELSE 0)
        /\ Cardinality({i \in Events : last.log[i].e = "entry"})
              <= Cardinality({i \in Events : last.log[i].e = "index"})
        /\ Count("stat", Dest) = 1 /\ Count("fetch", Dest) <= 1
        /\ \A i \in Events :
              last.log[i].e \in {"stat", "fetch", "write", "tolerated"} =>
                  <<last.log[i].kind, last.log[i].name>> \in Touched
        /\ \A x \in Touched \ {Dest} :
              /\ Count("stat", x) <= Named(TheEntry, x)
              /\ Count("fetch", x) <= Named(TheEntry, x)

C25_Witness ==
    /\ IsInstall /\ last.kind = KindProfile /\ last.err = Nil /\ FoundEntry
    /\ TheEntry.persona # NoName
    /\ \E x \in DepSlots(TheEntry) :
          Named(TheEntry, x) = 2 /\ Count("fetch", x) = 2 /\ Count("stat", x) = 2
    /\ Count("fetch", Dest) = 1
    /\ Cardinality({i \in Events : last.log[i].e = "index"}) = 1

\* the source the call ran against
TheSource ==
    NewSource(last.location,
              [manifest |-> last.manifest,
               index |-> [k \in Kinds |-> IF k = KindProfile THEN last.index ELSE ListingIndex(k)],
               disk |-> DiskOk, kept |-> {}])

\* the same call without DryRun, from the same install directory
WithoutDryRun ==
    Install(TheSource, [err |-> Nil, fs |-> last.fs0, cache |-> cache, log |-> <<>>],
            last.kind, last.name, [last.opts EXCEPT !.DryRun = FALSE])

\* C26: a call of Install with DryRun returns success exactly when the same
\* call without DryRun, from the same install directory and against the same
\* source, returns success.
C26_DryRunForetellsSuccess ==
    (IsInstall /\ last.opts.DryRun) => ((last.err = Nil) <=> (WithoutDryRun.err = Nil))

\* a dry run of a profile that lists one capability twice and names a
\* dependency that is installed
C26_Witness ==
    /\ IsInstall /\ last.opts.DryRun /\ ~last.opts.Force /\ last.err = Nil
    /\ FoundEntry
    /\ \E x \in DepSlots(TheEntry) : Named(TheEntry, x) = 2 /\ last.fs0[x] = NoFile
    /\ \E x \in DepSlots(TheEntry) : last.fs0[x] # NoFile
    /\ WithoutDryRun.err = Nil
    /\ WithoutDryRun.fs # last.fs0

----------------------------------------------------------------------------
\* More claims about the cache, over SpecCache

\* C27: with caching enabled, getIndex, as Info calls it, writes fetched
\* bytes that do not parse to the cache before it fails with the parse error;
\* and while such an entry is there, readable and not older than the TTL,
\* getIndex of the kind fails with the parse error without a fetch and leaves
\* the cache as it is, whatever the source serves by then.
C27_MalformedIndexIsCached ==
    (IsInfo /\ ~noCache) =>
        /\ (~last.log[1].hit /\ last.served[last.kind].state = BadYaml /\ last.disk = DiskOk) =>
              /\ last.err = [t |-> "parsingIndex", kind |-> last.kind]
              /\ HoldsServed(last.kind)
        /\ (/\ Entry0.present /\ Entry0.content.state = BadYaml
            /\ now - Entry0.mtime <= CacheTTL /\ last.disk # DiskUnreadable) =>
              /\ last.err = [t |-> "parsingIndex", kind |-> last.kind]
              /\ last.log = <<IndexRead(last.kind, TRUE, FALSE)>>
              /\ cache = last.cache0

\* a call that finds the malformed bytes an hour after they were cached, when
\* the source serves a well-formed index that lists the name
C27_Witness ==
    /\ IsInfo /\ ~noCache /\ last.disk = DiskOk
    /\ Entry0 = [present |-> TRUE, content |-> MalformedIndex, mtime |-> now - 1]
    /\ last.served = Stocked
    /\ last.name \in DOMAIN Listed(last.served[last.kind], last.kind)
    /\ last.err.t = "parsingIndex"
    /\ last.log[1].hit

----------------------------------------------------------------------------
\* More claims about Search, over SpecSearch

\* the kinds whose index the call read, in the order of the reads
KindsRead == [i \in 1..Len(last.log) |-> last.log[i].kind]

\* the selected kinds, in the order Search walks them
SelectedKinds == IF last.opts.Kind = NoKind THEN UpdateOrder ELSE <<last.opts.Kind>>

\* the source serves a well-formed index for the kind
Loads(kind) == last.served[kind].state = GoodYaml

\* C29: Search reads the indexes of the selected kinds only. It succeeds
\* exactly when all of them are served well-formed, and then has read each
\* once and ranks every match of the selected kinds and nothing else; when
\* one of them is not served or does not parse, it fails with no result,
\* whatever the kinds read before it matched.
C29_SearchAllOrNothing ==
    IsSearch =>
        /\ \A i \in 1..Len(KindsRead) : KindsRead[i] = SelectedKinds[i]
        /\ (last.err = Nil) <=> (\A k \in SearchedKinds : Loads(k))
        /\ last.err = Nil =>
              /\ KindsRead = SelectedKinds
              /\ {<<last.full[i].Kind, last.full[i].Name>> : i \in 1..Len(last.full)} = Matches
              /\ \A i \in 1..Len(last.results) : last.results[i].Kind \in SearchedKinds
        /\ last.err # Nil => (last.results = <<>> /\ last.full = <<>>)

\* a search of all kinds that fails on the last index after the first two
\* were read and held matches
C29_Witness ==
    /\ IsSearch /\ last.opts.Kind = NoKind /\ last.err # Nil
    /\ Len(KindsRead) = 3
    /\ \E n \in DOMAIN Listed(last.served[KindSkill], KindSkill) :
          FilteredScore(<<KindSkill, n>>) > 0
    /\ last.results = <<>>

----------------------------------------------------------------------------
\* Claims about calls of Install at the same time, over SpecRace

\* C28: of two calls of Install without force for the same item that run at
\* the same time on one install directory, at most one returns success, and
\* the manifest file is written once at most.
C28_InstallsExcludeEachOther ==
    (last.op = "Installs" /\ \A c \in Calls : last.pc[c] = "done") =>
        /\ Cardinality({c \in Calls : last.err[c] = Nil}) <= 1
        /\ last.writes <= 1

====
